---- MODULE Spec2Model ----
(***************************************************************************)
(* browser-cache-store: one CacheStore instance, created by                *)
(* createCacheStore, served either by IndexedCacheStore (IndexedDB) or by  *)
(* LocalStorageCacheStore (localStorage), together with the storage engine *)
(* the instance talks to and a caller that issues operations at any time.  *)
(*                                                                         *)
(* JavaScript runs each call and each engine callback to completion,       *)
(* microtasks included, so one action is one synchronous call or one       *)
(* engine event together with the promise reactions it triggers.           *)
(***************************************************************************)
EXTENDS Integers, Sequences, FiniteSets

\* ------------------------------------------------------------- bounds
\* Number of operations the caller issues on the instance.
MaxOps == 2
\* Numbers 0..MaxVal are the values initially stored and passed to set.
MaxVal == 1

\* ------------------------------------------------------------- values
\* JavaScript's undefined: what get resolves to and what update receives
\* when the key has no value.
Undef == -1
\* "This property is not in the object / no record under this key".
NoKey == -2
\* A value no engine can serialize: JSON.stringify throws on it and the
\* structured clone of IDBObjectStore.put throws DataCloneError.
NoSer == -3

Keys == {"a", "b"}

Nums == 0..MaxVal

\* An object with no property (the {} of { data: {} }); also an object store
\* with no record.
EmptyObj == [k \in Keys |-> NoKey]

\* obj[key]: a missing property reads as undefined.
Prop(obj, key) == IF obj[key] = NoKey THEN Undef ELSE obj[key]

\* The update functions the caller passes to put:
\*   "inc"    (prev) => (prev || 0) + 1
\*   "throws" a function that raises
\*   "noser"  a function returning a value that cannot be serialized
Updates == {"inc", "throws", "noser"}

\* Update functions that call the store they are run by, before they
\* return as "inc" does:
\*   "setsA"  (prev) => { store.set('a', 0); return (prev || 0) + 1 }
\*   "setsB"  (prev) => { store.set('b', 0); return (prev || 0) + 1 }
Reentrant == {"setsA", "setsB"}

\* The key the update function sets.
NestedKey(update) == IF update = "setsA" THEN "a" ELSE "b"

\* update(prev): [threw, next].  0 and undefined are falsy in (prev || 0).
CallUpdate(update, prev) ==
    CASE update \in {"inc"} \cup Reentrant ->
           [threw |-> FALSE,
            next  |-> (IF prev = Undef \/ prev = 0 THEN 0 ELSE prev) + 1]
      [] update = "throws" -> [threw |-> TRUE, next |-> Undef]
      [] OTHER -> [threw |-> FALSE, next |-> NoSer]

\* ------------------------------------------------------------- state
VARIABLES
    backend,       \* "idb" or "ls": the class createCacheStore instantiated
    localStorage,  \* the item stored under this.name
    db,            \* IndexedCacheStore.db is set
    dp,            \* state of the promise IndexedCacheStore.dp
    objectStore,   \* records of object store 'data' as transactions see them
    durable,       \* records of object store 'data' that are committed
    txs,           \* the IndexedDB transactions, in order of creation
    ops,           \* the operations called on the instance, in call order
    initial        \* the contents the store had when the instance was made

vars == <<backend, localStorage, db, dp, objectStore, durable, txs, ops, initial>>

\* ------------------------------------------------------------- operations
Types == {"get", "set", "put", "remove", "clear", "ready"}

\* One call of a CacheStore method and the promise it returned.
\*   st      "waiting"  queued on dp (the database is not open yet)
\*           "pending"  its transaction exists, a request is outstanding
\*           "resolved" / "rejected"  the promise has settled
\*   err     why it was rejected
\*   prev, next  what put read and computed ({ prev, next })
\*   result  what get resolved to
\*   queued  the call took the this.dp.then branch of store()
NewOp(type, key, value, update) ==
    [type |-> type, key |-> key, value |-> value, update |-> update,
     st |-> "pending", err |-> "none", prev |-> Undef, next |-> Undef,
     result |-> Undef, queued |-> FALSE]

Resolve(op) == [op EXCEPT !.st = "resolved"]

Reject(op, err) == [op EXCEPT !.st = "rejected", !.err = err]

Settled(op) == op.st \in {"resolved", "rejected"}

\* ------------------------------------------------- LocalStorageCacheStore
\* The item under this.name: kind "null" (getItem returns null), "empty"
\* (the empty string), "bad" (text that is not the JSON of a { data } object)
\* or "json" (the JSON text of { data: data }).
TextOf(kind, data) == [kind |-> kind, data |-> data]

NoItem == TextOf("null", EmptyObj)

\* JSON.stringify that writes a property whose value is undefined as a
\* marker (as it writes null) instead of leaving the property out.
JSONstringifyKeepsUndefined(data) ==
    IF \E k \in Keys : data[k] = NoSer
      THEN [threw |-> TRUE, text |-> NoItem]
      ELSE [threw |-> FALSE, text |-> TextOf("json", data)]

\* JSON.stringify(json): throws on a value that cannot be serialized, and
\* leaves out every property whose value is undefined.
JSONstringify(data) ==
    IF \E k \in Keys : data[k] = NoSer
      THEN [threw |-> TRUE, text |-> NoItem]
      ELSE [threw |-> FALSE,
            text |-> TextOf("json",
                       [k \in Keys |-> IF data[k] = Undef THEN NoKey ELSE data[k]])]

\* JSON.parse(text) of a non-empty text: throws SyntaxError when the text is
\* not JSON.
JSONparse(text) ==
    IF text.kind = "json"
      THEN [threw |-> FALSE, data |-> text.data]
      ELSE [threw |-> TRUE, data |-> EmptyObj]

\* text ? JSON.parse(text) : { data: {} }
getJSON(text) ==
    IF text.kind \in {"null", "empty"}
      THEN [threw |-> FALSE, data |-> EmptyObj]
      ELSE JSONparse(text)

\* putJSON that swallows the engine's refusal of the write.
putJSONSwallows(text, data, quota) ==
    LET s == JSONstringify(data) IN
    IF s.threw THEN [err |-> "serialize", text |-> text]
    ELSE IF quota THEN [err |-> "none", text |-> text]
    ELSE [err |-> "none", text |-> s.text]

\* localStorage.setItem(this.name, JSON.stringify(json)); quota says that the
\* engine refuses the write (QuotaExceededError).  [err, text]
putJSON(text, data, quota) ==
    LET s == JSONstringify(data) IN
    IF s.threw THEN [err |-> "serialize", text |-> text]
    ELSE IF quota THEN [err |-> "quota", text |-> text]
    ELSE [err |-> "none", text |-> s.text]

\* Each method below runs wholly inside its async function: an exception
\* rejects the returned promise.  [op, text]: the settled call and the item.
LsDone(op, text, err) ==
    [op |-> IF err = "none" THEN Resolve(op) ELSE Reject(op, err), text |-> text]

\* put that works on the mapping it parsed when the instance was made
\* instead of parsing the item again on every call.
LsPutStale(op, text, quota) ==
    LET prev == Prop(initial, op.key)
        u    == CallUpdate(op.update, prev) IN
    IF getJSON(text).threw THEN LsDone(op, text, "parse") ELSE
    IF u.threw THEN LsDone(op, text, "update") ELSE
    LET w == putJSON(text, [initial EXCEPT ![op.key] = u.next], quota) IN
    LsDone(IF w.err = "none" THEN [op EXCEPT !.prev = prev, !.next = u.next] ELSE op,
           w.text, w.err)

LsPut(op, text, quota) ==
    LET json == getJSON(text) IN
    IF json.threw THEN LsDone(op, text, "parse") ELSE
    LET prev == Prop(json.data, op.key)
        u    == CallUpdate(op.update, prev) IN
    IF u.threw THEN LsDone(op, text, "update") ELSE
    LET w == putJSON(text, [json.data EXCEPT ![op.key] = u.next], quota) IN
    LsDone(IF w.err = "none" THEN [op EXCEPT !.prev = prev, !.next = u.next] ELSE op,
           w.text, w.err)

\* set that writes a new object holding the one key instead of the object
\* it parsed.
LsSetAlone(op, text, quota) ==
    LET json == getJSON(text) IN
    IF json.threw THEN LsDone(op, text, "parse") ELSE
    LET w == putJSON(text, [EmptyObj EXCEPT ![op.key] = op.value], quota) IN
    LsDone(op, w.text, w.err)

LsSet(op, text, quota) ==
    LET json == getJSON(text) IN
    IF json.threw THEN LsDone(op, text, "parse") ELSE
    LET w == putJSON(text, [json.data EXCEPT ![op.key] = op.value], quota) IN
    LsDone(op, w.text, w.err)

\* The call store.set(key, 0) an update function makes.
NestedSet(update) == NewOp("set", NestedKey(update), 0, "none")

\* put with an update function that calls set: the set runs to its end
\* inside update(prev), between the put's getJSON and its putJSON, and the
\* put then writes the object it parsed before.  [op, nested, text]; nested
\* is <<>> when update was never called.
LsPutReentrant(op, text, quota) ==
    LET json == getJSON(text) IN
    IF json.threw
      THEN [op |-> Reject(op, "parse"), nested |-> <<>>, text |-> text] ELSE
    LET prev == Prop(json.data, op.key)
        n    == LsSet(NestedSet(op.update), text, FALSE)
        u    == CallUpdate(op.update, prev)
        w    == putJSON(n.text, [json.data EXCEPT ![op.key] = u.next], quota)
        done == LsDone(IF w.err = "none"
                         THEN [op EXCEPT !.prev = prev, !.next = u.next] ELSE op,
                       w.text, w.err) IN
    [op |-> done.op, nested |-> <<n.op>>, text |-> done.text]

LsGet(op, text) ==
    LET json == getJSON(text) IN
    IF json.threw THEN LsDone(op, text, "parse")
    ELSE LsDone([op EXCEPT !.result = Prop(json.data, op.key)], text, "none")

LsRemove(op, text, quota) ==
    LET json == getJSON(text) IN
    IF json.threw THEN LsDone(op, text, "parse") ELSE
    LET w == putJSON(text, [json.data EXCEPT ![op.key] = Undef], quota) IN
    LsDone(op, w.text, w.err)

\* localStorage.removeItem(this.name)
LsClear(op, text) == LsDone(op, NoItem, "none")

LsReady(op, text) == LsDone(op, text, "none")

LsRun(op, text, quota) ==
    CASE op.type = "put"    -> LsPut(op, text, quota)
      [] op.type = "set"    -> LsSet(op, text, quota)
      [] op.type = "get"    -> LsGet(op, text)
      [] op.type = "remove" -> LsRemove(op, text, quota)
      [] op.type = "clear"  -> LsClear(op, text)
      [] OTHER              -> LsReady(op, text)

\* ------------------------------------------------------ IndexedCacheStore
\* get opens its transaction 'readonly', the other methods 'readwrite'.
IdbMode(type) == IF type = "get" THEN "readonly" ELSE "readwrite"

\* One IDBTransaction on object store 'data'.
\*   op     the call that created it (index in ops)
\*   req    the outstanding IDBRequest: "get", "put", "delete", "clear", or
\*          "none"
\*   st     "active" while a request is outstanding; "committing" once no
\*          request is left; then "committed" or "aborted"
\*   wrote  a put, delete or clear request of it has succeeded
NewTx(i, mode, req) ==
    [op |-> i, mode |-> mode, req |-> req,
     st |-> IF req = "none" THEN "committing" ELSE "active", wrote |-> FALSE]

\* The first request each method places on its fresh transaction (the
\* onsuccess callback it hands to store()); "none" when placing it throws.
\* IDBObjectStore.put throws DataCloneError on a value it cannot clone.
FirstRequest(op) ==
    CASE op.type = "get"    -> "get"
      [] op.type = "put"    -> "get"
      [] op.type = "set"    -> IF op.value = NoSer THEN "none" ELSE "put"
      [] op.type = "remove" -> "delete"
      [] OTHER              -> "clear"

\* onsuccess(db.transaction('data', mode).objectStore('data')): the
\* transaction is created and the method's callback places its request.  An
\* exception of the callback rejects the promise: thrown inside the Promise
\* executor, or caught by .catch(onerror) behind this.dp.then.  [op, tx]
Transact(op, i) ==
    LET req == FirstRequest(op) IN
    [op |-> IF req = "none" THEN Reject(op, "clone")
            ELSE [op EXCEPT !.st = "pending"],
     tx |-> NewTx(i, IdbMode(op.type), req)]

\* store() that keeps the transaction of an earlier call for reuse: once
\* one has aborted, the call fails with that transaction's error.
storeShared(op, i) ==
    IF \E t \in 1..Len(txs) : txs[t].st = "aborted"
      THEN [op |-> Reject(op, "request"), tx |-> NewTx(i, IdbMode(op.type), "none")]
      ELSE Transact(op, i)

\* store() with this.db set: the transaction is created at once.
store(op, i) == Transact(op, i)

\* storeWait that does not wait for the open: with this.db unset the call
\* fails at once.
storeWaitFails(op) == Reject([op EXCEPT !.queued = TRUE], "open")

\* store() with this.db unset: the call is queued on this.dp.
storeWait(op) == [op EXCEPT !.st = "waiting", !.queued = TRUE]

\* storeThen whose exception nothing catches: when the method's callback
\* throws on placing its request, the call's promise is left as it is.
storeThenUncaught(op, i) ==
    IF FirstRequest(op) = "none"
      THEN [op |-> op, tx |-> Transact(op, i).tx]
      ELSE Transact(op, i)

\* The .then reaction of a queued call, run when dp is fulfilled.
storeThen(op, i) == Transact(op, i)

\* storeCatch with no .catch(onerror) behind this.dp.then: the rejection of
\* dp never reaches the call's promise.
storeNoCatch(op) == op

\* The .catch(onerror) reaction of a queued call, run when dp is rejected.
storeCatch(op) == Reject(op, "open")

\* ready(): await this.dp.
readyWait(op) == [op EXCEPT !.st = "waiting", !.queued = TRUE]

Finished(tx) == tx.st \in {"committed", "aborted"}

\* The engine starts transactions whose scopes overlap in the order they
\* were created, unless both are read-only: transaction t cannot run while
\* an earlier one that it conflicts with is unfinished.
Conflict(m1, m2) == m1 = "readwrite" \/ m2 = "readwrite"

Blocked(t) ==
    \E s \in 1..(t - 1) :
        ~Finished(txs[s]) /\ Conflict(txs[s].mode, txs[t].mode)

\* The calls queued on dp taken latest first, as from a stack.
WaitingLatestFirst ==
    LET w == SelectSeq([i \in 1..Len(ops) |-> i],
                       LAMBDA i : ops[i].st = "waiting" /\ ops[i].type # "ready")
    IN [j \in 1..Len(w) |-> w[Len(w) + 1 - j]]

\* The calls still queued on dp, in the order they were made.
Waiting == SelectSeq([i \in 1..Len(ops) |-> i],
                     LAMBDA i : ops[i].st = "waiting" /\ ops[i].type # "ready")

\* A call on the IndexedCacheStore.  ready awaits dp; the other methods go
\* through store(): at once when this.db is set, else behind this.dp, whose
\* reactions run at once when dp is already rejected.
IdbCall(op) ==
    /\ backend = "idb"
    /\ UNCHANGED <<backend, localStorage, db, dp, objectStore, durable, initial>>
    /\ LET i == Len(ops) + 1 IN
       IF op.type = "ready" THEN
           /\ ops' = Append(ops,
                 CASE dp = "pending"   -> readyWait(op)
                   [] dp = "fulfilled" -> Resolve(op)
                   [] OTHER            -> Reject(op, "open"))
           /\ txs' = txs
       ELSE IF db THEN
           /\ ops' = Append(ops, store(op, i).op)
           /\ txs' = Append(txs, store(op, i).tx)
       ELSE
           /\ ops' = Append(ops,
                 IF dp = "pending" THEN storeWait(op)
                 ELSE storeCatch(storeWait(op)))
           /\ txs' = txs

\* A call on the LocalStorageCacheStore: the whole method body runs at once.
LsCall(op, quota) ==
    /\ backend = "ls"
    /\ ops' = Append(ops, LsRun(op, localStorage, quota).op)
    /\ localStorage' = LsRun(op, localStorage, quota).text
    /\ UNCHANGED <<backend, db, dp, objectStore, durable, txs, initial>>

Call(op, quota) ==
    \/ IdbCall(op) /\ quota = FALSE
    \/ LsCall(op, quota)

\* The caller's calls.  A method without a key or value leaves the field at
\* a fixed filler.
put ==
    \E key \in Keys, update \in Updates, quota \in BOOLEAN :
        /\ Len(ops) < MaxOps
        /\ Call(NewOp("put", key, Undef, update), quota)

\* put with an update function that calls the store.
putReentrant ==
    \E key \in Keys, update \in Reentrant, quota \in BOOLEAN :
        LET op == NewOp("put", key, Undef, update)
            r  == LsPutReentrant(op, localStorage, quota) IN
        /\ Len(ops) < MaxOps
        /\ \/ IdbCall(op) /\ quota = FALSE
           \/ /\ backend = "ls"
              /\ ops' = Append(ops, r.op) \o r.nested
              /\ localStorage' = r.text
              /\ UNCHANGED <<backend, db, dp, objectStore, durable, txs, initial>>

set ==
    \E key \in Keys, value \in Nums \cup {NoSer}, quota \in BOOLEAN :
        /\ Len(ops) < MaxOps
        /\ Call(NewOp("set", key, value, "none"), quota)

get ==
    \E key \in Keys :
        /\ Len(ops) < MaxOps
        /\ Call(NewOp("get", key, Undef, "none"), FALSE)

remove ==
    \E key \in Keys, quota \in BOOLEAN :
        /\ Len(ops) < MaxOps
        /\ Call(NewOp("remove", key, Undef, "none"), quota)

clear ==
    /\ Len(ops) < MaxOps
    /\ Call(NewOp("clear", "a", Undef, "none"), FALSE)

ready ==
    /\ Len(ops) < MaxOps
    /\ Call(NewOp("ready", "a", Undef, "none"), FALSE)

\* req.onsuccess of the open request: this.db is set and dp resolved; the
\* reactions queued on dp then run in the order they were added, each one
\* creating its transaction.
OpenSuccess ==
    /\ backend = "idb" /\ dp = "pending"
    /\ db' = TRUE
    /\ dp' = "fulfilled"
    /\ ops' = [i \in 1..Len(ops) |->
                 IF ops[i].st # "waiting" THEN ops[i]
                 ELSE IF ops[i].type = "ready" THEN Resolve(ops[i])
                 ELSE storeThen(ops[i], i).op]
    /\ txs' = txs \o [j \in 1..Len(Waiting) |->
                         storeThen(ops[Waiting[j]], Waiting[j]).tx]
    /\ UNCHANGED <<backend, localStorage, objectStore, durable, initial>>

\* req.onerror of the open request: dp is rejected, and with it every call
\* queued on it (.catch(onerror)) and every ready().
OpenError ==
    /\ backend = "idb" /\ dp = "pending"
    /\ dp' = "rejected"
    /\ ops' = [i \in 1..Len(ops) |->
                 IF ops[i].st # "waiting" THEN ops[i]
                 ELSE IF ops[i].type = "ready" THEN Reject(ops[i], "open")
                 ELSE storeCatch(ops[i])]
    /\ UNCHANGED <<backend, localStorage, db, objectStore, durable, txs, initial>>

\* ---------------------------------------------- request and transaction events
\* Transaction t's outstanding request can be served.
Ready(t) ==
    /\ backend = "idb"
    /\ t \in 1..Len(txs)
    /\ txs[t].st = "active"
    /\ ~Blocked(t)

\* No request is left on the transaction: it will try to commit.
NoRequest(tx) == [tx EXCEPT !.req = "none", !.st = "committing"]

\* The request wrote: the transaction has something to commit.
Wrote(tx) == [NoRequest(tx) EXCEPT !.wrote = TRUE]

\* get.onsuccess of get: resolve(get.result).
GetOnsuccess(t) ==
    LET i == txs[t].op IN
    /\ Ready(t) /\ ops[i].type = "get" /\ txs[t].req = "get"
    /\ ops' = [ops EXCEPT ![i] =
                 Resolve([ops[i] EXCEPT !.result = Prop(objectStore, ops[i].key)])]
    /\ txs' = [txs EXCEPT ![t] = NoRequest(@)]
    /\ UNCHANGED <<backend, localStorage, db, dp, objectStore, durable, initial>>

\* PutGetOnsuccess with the write placed on a transaction of its own
\* instead of the one that read.
PutGetOnsuccessOwnTx(op, t, prev) ==
    LET u == CallUpdate(op.update, prev) IN
    IF u.threw
      THEN [op |-> Reject(op, "update"), txs |-> [txs EXCEPT ![t] = NoRequest(@)]]
    ELSE IF u.next = NoSer
      THEN [op |-> Reject(op, "clone"), txs |-> [txs EXCEPT ![t] = NoRequest(@)]]
    ELSE [op  |-> [op EXCEPT !.prev = prev, !.next = u.next],
          txs |-> Append([txs EXCEPT ![t] = NoRequest(@)],
                         NewTx(txs[t].op, "readwrite", "put"))]

\* PutGetOnsuccess without its try/catch: an exception of update (or of
\* store.put) escapes the success handler, which aborts the transaction and
\* leaves the promise pending.
PutGetOnsuccessNoCatch(op, t, prev) ==
    LET u == CallUpdate(op.update, prev) IN
    IF u.threw \/ u.next = NoSer
      THEN [op |-> op, txs |-> [txs EXCEPT ![t].req = "none", ![t].st = "aborted"]]
    ELSE [op  |-> [op EXCEPT !.prev = prev, !.next = u.next],
          txs |-> [txs EXCEPT ![t].req = "put"]]

\* get.onsuccess of put: prev = get.result; next = update(prev);
\* store.put(next, key) on the same transaction; an exception of update or
\* of store.put is caught and rejects.  [op, txs]: the call, and the
\* transactions with t moved on.
PutGetOnsuccess(op, t, prev) ==
    LET u == CallUpdate(op.update, prev) IN
    IF u.threw
      THEN [op |-> Reject(op, "update"), txs |-> [txs EXCEPT ![t] = NoRequest(@)]]
    ELSE IF u.next = NoSer
      THEN [op |-> Reject(op, "clone"), txs |-> [txs EXCEPT ![t] = NoRequest(@)]]
    ELSE [op  |-> [op EXCEPT !.prev = prev, !.next = u.next],
          txs |-> [txs EXCEPT ![t].req = "put"]]

\* The engine serves put's store.get(key) and get.onsuccess runs.  An
\* update function that calls set does so inside update(prev): that call
\* goes through store() and gets a transaction of its own, created before
\* the put places its store.put.
PutRead(t) ==
    LET i == txs[t].op
        r == PutGetOnsuccess(ops[i], t, Prop(objectStore, ops[i].key))
        n == store(NestedSet(ops[i].update), Len(ops) + 1) IN
    /\ Ready(t) /\ ops[i].type = "put" /\ txs[t].req = "get"
    /\ ops' = IF ops[i].update \in Reentrant
                THEN Append([ops EXCEPT ![i] = r.op], n.op)
                ELSE [ops EXCEPT ![i] = r.op]
    /\ txs' = IF ops[i].update \in Reentrant THEN Append(r.txs, n.tx) ELSE r.txs
    /\ UNCHANGED <<backend, localStorage, db, dp, objectStore, durable, initial>>

\* The engine performs put's store.put(next, key); put.onsuccess resolves
\* with { prev, next }.
PutWrite(t) ==
    LET i == txs[t].op IN
    /\ Ready(t) /\ ops[i].type = "put" /\ txs[t].req = "put"
    /\ objectStore' = [objectStore EXCEPT ![ops[i].key] = ops[i].next]
    /\ ops' = [ops EXCEPT ![i] = Resolve(@)]
    /\ txs' = [txs EXCEPT ![t] = Wrote(@)]
    /\ UNCHANGED <<backend, localStorage, db, dp, durable, initial>>

\* The engine performs set's store.put(value, key); put.onsuccess resolves.
SetWrite(t) ==
    LET i == txs[t].op IN
    /\ Ready(t) /\ ops[i].type = "set" /\ txs[t].req = "put"
    /\ objectStore' = [objectStore EXCEPT ![ops[i].key] = ops[i].value]
    /\ ops' = [ops EXCEPT ![i] = Resolve(@)]
    /\ txs' = [txs EXCEPT ![t] = Wrote(@)]
    /\ UNCHANGED <<backend, localStorage, db, dp, durable, initial>>

\* The engine performs remove's store.delete(key); del.onsuccess resolves.
RemoveDelete(t) ==
    LET i == txs[t].op IN
    /\ Ready(t) /\ ops[i].type = "remove" /\ txs[t].req = "delete"
    /\ objectStore' = [objectStore EXCEPT ![ops[i].key] = NoKey]
    /\ ops' = [ops EXCEPT ![i] = Resolve(@)]
    /\ txs' = [txs EXCEPT ![t] = Wrote(@)]
    /\ UNCHANGED <<backend, localStorage, db, dp, durable, initial>>

\* The engine performs clear's store.clear(); clear.onsuccess resolves.
ClearAll(t) ==
    LET i == txs[t].op IN
    /\ Ready(t) /\ ops[i].type = "clear" /\ txs[t].req = "clear"
    /\ objectStore' = EmptyObj
    /\ ops' = [ops EXCEPT ![i] = Resolve(@)]
    /\ txs' = [txs EXCEPT ![t] = Wrote(@)]
    /\ UNCHANGED <<backend, localStorage, db, dp, durable, initial>>

\* The outstanding request fails, or the engine aborts the transaction
\* under it: the request's onerror (= reject) runs; the error event is not
\* cancelled, so the transaction aborts and its writes are undone.
RequestOnerror(t) ==
    LET i == txs[t].op IN
    /\ Ready(t)
    /\ ops' = [ops EXCEPT ![i] = Reject(@, "request")]
    /\ txs' = [txs EXCEPT ![t].req = "none", ![t].st = "aborted"]
    /\ objectStore' = durable
    /\ UNCHANGED <<backend, localStorage, db, dp, durable, initial>>

\* With no request left the transaction commits: its writes become durable.
\* No handler of the store listens to the transaction's complete event.
Complete(t) ==
    /\ backend = "idb"
    /\ t \in 1..Len(txs)
    /\ txs[t].st = "committing"
    /\ ~Blocked(t)
    /\ txs' = [txs EXCEPT ![t].st = "committed"]
    /\ durable' = IF txs[t].mode = "readwrite" THEN objectStore ELSE durable
    /\ UNCHANGED <<backend, localStorage, db, dp, objectStore, ops, initial>>

\* Writing the changes fails at commit (QuotaExceededError, UnknownError):
\* the transaction aborts and its writes are undone.  No handler of the
\* store listens to the transaction's abort or error event.
AbortOnCommit(t) ==
    /\ backend = "idb"
    /\ t \in 1..Len(txs)
    /\ txs[t].st = "committing"
    /\ txs[t].wrote
    /\ ~Blocked(t)
    /\ txs' = [txs EXCEPT ![t].st = "aborted"]
    /\ objectStore' = durable
    /\ UNCHANGED <<backend, localStorage, db, dp, durable, ops, initial>>

\* ------------------------------------------------------------- the system
\* What the store can hold when the instance is created: nothing, or the
\* number MaxVal under every key.
Stores == {EmptyObj, [k \in Keys |-> MaxVal]}

Texts == {TextOf("null", EmptyObj), TextOf("empty", EmptyObj),
          TextOf("bad", EmptyObj)}
         \cup {TextOf("json", d) : d \in Stores}

\* createCacheStore: window.indexedDB ? new IndexedCacheStore(name)
\*                                     : new LocalStorageCacheStore(name)
\* The IndexedCacheStore's constructor has called indexedDB.open.
Init ==
    /\ backend \in {"idb", "ls"}
    /\ ops = <<>>
    /\ txs = <<>>
    /\ db = FALSE
    /\ IF backend = "idb"
         THEN /\ dp = "pending"
              /\ durable \in Stores
              /\ localStorage = NoItem
              /\ initial = durable
         ELSE /\ dp = "unused"
              /\ durable = EmptyObj
              /\ localStorage \in Texts
              /\ initial = getJSON(localStorage).data
    /\ objectStore = durable

Next ==
    \/ put \/ set \/ get \/ remove \/ clear \/ ready
    \/ OpenSuccess
    \/ OpenError
    \/ \E t \in 1..Len(txs) : GetOnsuccess(t)
    \/ \E t \in 1..Len(txs) : PutRead(t)
    \/ \E t \in 1..Len(txs) : PutWrite(t)
    \/ \E t \in 1..Len(txs) : SetWrite(t)
    \/ \E t \in 1..Len(txs) : RemoveDelete(t)
    \/ \E t \in 1..Len(txs) : ClearAll(t)
    \/ \E t \in 1..Len(txs) : RequestOnerror(t)
    \/ \E t \in 1..Len(txs) : Complete(t)
    \/ \E t \in 1..Len(txs) : AbortOnCommit(t)

Spec == Init /\ [][Next]_vars

\* The system with a caller whose update functions may call the store.
NextReentrant == Next \/ putReentrant

SpecReentrant == Init /\ [][NextReentrant]_vars

\* The engine's steps: the callbacks of the open request and of the
\* requests, and the end of the transactions.
Engine ==
    \/ OpenSuccess
    \/ OpenError
    \/ \E t \in 1..Len(txs) :
          \/ GetOnsuccess(t) \/ PutRead(t) \/ PutWrite(t) \/ SetWrite(t)
          \/ RemoveDelete(t) \/ ClearAll(t) \/ RequestOnerror(t)
          \/ Complete(t) \/ AbortOnCommit(t)

\* The engine does not stop while it owes a callback: the open request gets
\* its success or error, every request gets its success or error, every
\* transaction with no request left ends.
SpecFair == Spec /\ WF_vars(Engine)

\* ------------------------------------------------------------- observations
\* What a get(key) issued now, with nothing else in flight, resolves to.
Stored(key) ==
    IF backend = "idb" THEN Prop(durable, key)
    ELSE Prop(getJSON(localStorage).data, key)

\* No transaction is in flight.
Quiet == \A t \in 1..Len(txs) : Finished(txs[t])

\* The number an increment starts from: (prev || 0).
Base(v) == IF v = Undef THEN 0 ELSE v

IsPut(op, key, update) == op.type = "put" /\ op.key = key /\ op.update = update

\* ------------------------------------------------------------- claims

\* C1: when every call made on the instance is put(k, increment), N >= 1 of
\* them, and all N promises have resolved (and their transactions are over),
\* the value stored under k is the initial value plus N.
C1_NoLostUpdates ==
    \A k \in Keys :
        ( /\ Len(ops) >= 1
          /\ \A i \in 1..Len(ops) : IsPut(ops[i], k, "inc") /\ ops[i].st = "resolved"
          /\ Quiet )
        => Stored(k) = Base(Prop(initial, k)) + Len(ops)

\* A put of the IndexedCacheStore has read and not yet written.
Between(t) ==
    /\ ops[txs[t].op].type = "put"
    /\ txs[t].st = "active"
    /\ txs[t].req = "put"

\* The call made in this step, if the step is a call.
IsCall == Len(ops') = Len(ops) + 1

Called == ops'[Len(ops')]

\* C2: between a put's read of k and its write of k no write of another
\* operation takes effect on k: the value under k is still the prev the put
\* read, the write replaces exactly that value by next, and the put resolves
\* with that prev.  On the LocalStorageCacheStore read and write are one step.
C2_BetweenReadAndWrite ==
    \A t \in 1..Len(txs) :
        Between(t) => Prop(objectStore, ops[txs[t].op].key) = ops[txs[t].op].prev

C2_WriteStep ==
    /\ \A t \in 1..Len(txs) :
          (Between(t) /\ txs'[t].wrote) =>
              LET i == txs[t].op IN
              /\ Prop(objectStore, ops[i].key) = ops[i].prev
              /\ objectStore' = [objectStore EXCEPT ![ops[i].key] = ops[i].next]
              /\ ops'[i] = Resolve(ops[i])
    /\ (backend = "ls" /\ IsCall /\ Called.type = "put" /\ Called.st = "resolved") =>
          /\ Called.prev = Prop(getJSON(localStorage).data, Called.key)
          /\ Called.next = CallUpdate(Called.update, Called.prev).next
          /\ getJSON(localStorage').data =
                [getJSON(localStorage).data EXCEPT ![Called.key] = Called.next]

C2_PutAtomic == [](C2_BetweenReadAndWrite) /\ [][C2_WriteStep]_vars

\* A put has read k while another write to k is pending behind it.
C2_Witness ==
    \E t \in 1..Len(txs) : \E j \in 1..Len(ops) :
        /\ Between(t)
        /\ j # txs[t].op
        /\ ops[j].type \in {"set", "put", "remove", "clear"}
        /\ ops[j].key = ops[txs[t].op].key \/ ops[j].type = "clear"
        /\ ops[j].st = "pending"
        /\ Prop(objectStore, ops[j].key) # Undef

\* C3: the first call on the instance being put(k, fn) with an fn that does
\* not fail, once it has resolved its prev is the value stored under k
\* before the call, its next is fn(prev), and a get(k) that follows it
\* resolves to next.
C3_PutThenGet ==
    \A k \in Keys :
        (Len(ops) >= 1 /\ IsPut(ops[1], k, "inc") /\ ops[1].st = "resolved") =>
            /\ ops[1].prev = Prop(initial, k)
            /\ ops[1].next = CallUpdate("inc", ops[1].prev).next
            /\ (Len(ops) >= 2 /\ ops[2].type = "get" /\ ops[2].key = k
                  /\ ops[2].st = "resolved") => ops[2].result = ops[1].next

\* What the store holds, durably and as seen by transactions.
Contents == <<durable, objectStore, localStorage>>

Throws(op) == op.type = "put" /\ op.update = "throws"

\* C4: a put whose update function raises never resolves and never places a
\* write; once its read is over the promise is rejected, with the function's
\* error unless the read itself failed, and no step of that put or of its
\* transaction changes what the store holds.
C4_NeverWrites ==
    /\ \A i \in 1..Len(ops) : Throws(ops[i]) => ops[i].st # "resolved"
    /\ \A t \in 1..Len(txs) :
          Throws(ops[txs[t].op]) => (~txs[t].wrote /\ txs[t].req # "put")

C4_Step ==
    /\ \A t \in 1..Len(txs) :
          LET i == txs[t].op IN
          (Throws(ops[i]) /\ (txs'[t] # txs[t] \/ ops'[i] # ops[i])) =>
              /\ Contents' = Contents
              /\ (txs[t].req = "get" /\ txs'[t].req = "none") =>
                     \/ ops'[i] = Reject(ops[i], "update")
                     \/ ops'[i] = Reject(ops[i], "request") /\ txs'[t].st = "aborted"
    /\ (backend = "ls" /\ IsCall /\ Throws(Called)) =>
          /\ Contents' = Contents
          /\ Called.st = "rejected"
          /\ Called.err = IF getJSON(localStorage).threw THEN "parse" ELSE "update"

C4_UpdateThrows == [](C4_NeverWrites) /\ [][C4_Step]_vars

\* A put whose update function raised is rejected with that error, and its
\* transaction is over, in a store that holds a value under the put's key.
C4_Witness ==
    \E t \in 1..Len(txs) :
        /\ Throws(ops[txs[t].op])
        /\ ops[txs[t].op].err = "update"
        /\ txs[t].st = "committed"
        /\ Stored(ops[txs[t].op].key) # Undef

\* The same call made with this.db set.
Direct(op) == NewOp(op.type, op.key, op.value, op.update)

\* C5: while the open is in flight every call waits on it, none has failed
\* or run; once the open has succeeded no call is left waiting, none has
\* failed with the open's error, every ready() has resolved, and every other
\* call has its transaction.  In the step that ends the open, each waiting
\* call becomes what the same call is when made after the open, and the
\* transactions are created in the order of the calls.
C5_Waits ==
    backend = "idb" =>
      /\ dp = "pending" =>
            /\ txs = <<>>
            /\ \A i \in 1..Len(ops) : ops[i].st = "waiting" /\ ops[i].queued
      /\ dp = "fulfilled" =>
            \A i \in 1..Len(ops) :
                /\ ops[i].st # "waiting"
                /\ ops[i].err # "open"
                /\ ops[i].type = "ready" => ops[i].st = "resolved"
                /\ ops[i].type # "ready" => \E t \in 1..Len(txs) : txs[t].op = i

C5_OpenStep ==
    (dp = "pending" /\ dp' = "fulfilled") =>
      /\ db'
      /\ \A i \in 1..Len(ops) :
            ops[i].type # "ready" =>
              /\ [ops'[i] EXCEPT !.queued = FALSE] = store(Direct(ops[i]), i).op
              /\ \E t \in 1..Len(txs') : txs'[t] = store(Direct(ops[i]), i).tx
      /\ \A t1, t2 \in 1..Len(txs') : t1 < t2 => txs'[t1].op < txs'[t2].op

C5_QueuedBehindOpen == [](C5_Waits) /\ [][C5_OpenStep]_vars

\* A get and a ready() made before the open ended have both resolved, the
\* get to the value the store held.
C5_Witness ==
    /\ dp = "fulfilled"
    /\ \E i, j \in 1..Len(ops) :
          /\ ops[i].type = "get" /\ ops[i].queued
          /\ ops[i].st = "resolved" /\ ops[i].result = MaxVal
          /\ ops[j].type = "ready" /\ ops[j].queued /\ ops[j].st = "resolved"

\* C6: once the open has failed, every call made on the instance, ready()
\* included, is rejected with the open's error: none is waiting, none has a
\* transaction, none has resolved.
C6_OpenFailureRejectsAll ==
    (backend = "idb" /\ dp = "rejected") =>
      /\ txs = <<>>
      /\ ~db
      /\ \A i \in 1..Len(ops) : ops[i].st = "rejected" /\ ops[i].err = "open"

\* The open has failed with a ready() and a put made before it ended.
C6_Witness ==
    /\ dp = "rejected"
    /\ Len(ops) = 2
    /\ ops[1].type = "ready" /\ ops[1].st = "rejected"
    /\ ops[2].type = "put" /\ ops[2].st = "rejected"

\* C7: on the LocalStorageCacheStore a call made while the stored text is
\* malformed does not fail for it: get resolves to undefined and leaves the
\* text alone; set, put and remove, unless they fail for a reason of their
\* own, resolve and leave a well-formed text.
C7_Step ==
    (backend = "ls" /\ localStorage.kind = "bad" /\ IsCall) =>
      /\ Called.err # "parse"
      /\ Called.type = "get" =>
            /\ Called.st = "resolved" /\ Called.result = Undef
            /\ localStorage' = localStorage
      /\ (Called.type \in {"set", "put", "remove"} /\ Called.st = "resolved") =>
            localStorage'.kind = "json"

C7_MalformedTolerated == [][C7_Step]_vars

\* C8: on the IndexedCacheStore the promise of a call whose transaction
\* aborted (a request of it failed, or it failed to commit) is rejected, and
\* the abort leaves the committed records as they were.
C8_AbortedIsRejected ==
    \A t \in 1..Len(txs) :
        txs[t].st = "aborted" => ops[txs[t].op].st = "rejected"

C8_AbortStep ==
    \A t \in 1..Len(txs) :
        (txs[t].st # "aborted" /\ txs'[t].st = "aborted") =>
            /\ durable' = durable
            /\ objectStore' = durable

C8_FailureRejects == [](C8_AbortedIsRejected) /\ [][C8_AbortStep]_vars

\* The value a set or put call is about to store.
ToStore(op, text) ==
    IF op.type = "set" THEN op.value
    ELSE CallUpdate(op.update, Prop(getJSON(text).data, op.key)).next

\* C9: on the LocalStorageCacheStore every set and put settles within the
\* call; one whose value cannot be serialized is rejected; one that is
\* rejected leaves the stored text exactly as it was; and one that resolves
\* has written: the text then holds the value under the key.
C9_Step ==
    (backend = "ls" /\ IsCall /\ Called.type \in {"set", "put"}) =>
      /\ Settled(Called)
      /\ ToStore(Called, localStorage) = NoSer => Called.st = "rejected"
      /\ Called.st = "rejected" => localStorage' = localStorage
      /\ Called.st = "resolved" =>
            /\ localStorage'.kind = "json"
            /\ Prop(localStorage'.data, Called.key) = ToStore(Called, localStorage)

C9_FailedWriteLeavesText == [][C9_Step]_vars

\* A set was rejected because its value cannot be serialized and a put
\* because the engine refused the write; the text still holds its records.
C9_Witness ==
    /\ backend = "ls"
    /\ Len(ops) = 2
    /\ ops[1].type = "set" /\ ops[1].err = "serialize"
    /\ ops[2].type = "put" /\ ops[2].err = "quota"
    /\ localStorage = TextOf("json", [k \in Keys |-> MaxVal])

\* The reasons of the error taxonomy a call can be rejected for.
Taxonomy == {"open", "request", "update", "clone", "serialize", "quota"}

\* Some call has been rejected for one of the reasons E.
Failed(E) == \E i \in 1..Len(ops) : ops[i].st = "rejected" /\ ops[i].err \in E

\* A call made now is taken on, or fails within the call for a reason of its
\* own: its update function, its value, the engine refusing its write.
Unharmed(op) == op.err \in {"none", "update", "clone", "serialize", "quota"}

\* Nothing is run again: a settled promise stays as it is, and no call has
\* two transactions.
NoRetryStep == \A i \in 1..Len(ops) : Settled(ops[i]) => ops'[i] = ops[i]

OneTransaction ==
    \A t1, t2 \in 1..Len(txs) : txs[t1].op = txs[t2].op => t1 = t2

\* C10 as stated: after a call was rejected for any reason of the taxonomy,
\* the open's failure included, the instance still takes a later call on the
\* same terms as before, and nothing is run again.
C10_NothingIsFatalStep ==
    /\ (Failed(Taxonomy) /\ IsCall) => Unharmed(Called)
    /\ NoRetryStep

C10_NothingIsFatal == [](OneTransaction) /\ [][C10_NothingIsFatalStep]_vars

\* C10 as amended: that holds after a rejection for any reason other than the
\* open's failure.  The open's failure is final: it is not tried again, and
\* every later call is rejected with its error.  Nothing is run again.
C10_FatalOnlyOpenStep ==
    /\ (Failed(Taxonomy \ {"open"}) /\ IsCall) => Unharmed(Called)
    /\ dp = "rejected" =>
          /\ dp' = "rejected" /\ ~db'
          /\ IsCall => (Called.st = "rejected" /\ Called.err = "open")
    /\ NoRetryStep

C10_FatalOnlyOpen == [](OneTransaction) /\ [][C10_FatalOnlyOpenStep]_vars

\* A set made before the open ended was rejected for its value when the
\* open succeeded; a set made after that has resolved and is committed.
C10_Witness ==
    /\ Len(ops) = 2
    /\ ops[1].queued /\ ops[1].st = "rejected" /\ ops[1].err = "clone"
    /\ ~ops[2].queued /\ ops[2].type = "set" /\ ops[2].st = "resolved"
    /\ Quiet
    /\ Stored(ops[2].key) = ops[2].value

\* Call i is the last one made and nothing is in flight: a get(k) made now
\* resolves to Stored(k).
Last(i) == i = Len(ops) /\ Quiet

\* Call j was made right after call i, and not while the open was in flight:
\* in call order nothing separates the two, and every state in which both
\* have settled is reached by a run in which j is called after i settled.
Next2(i, j) == j = i + 1 /\ j <= Len(ops) /\ ~ops[j].queued

\* C11: a set(k, v) having resolved, with a value that can be serialized, a
\* get(k) made after it resolves to v, whether or not k held a value before.
C11_Got ==
    \A i \in 1..Len(ops) : \A j \in 1..Len(ops) :
        ( /\ Next2(i, j)
          /\ ops[i].type = "set" /\ ops[i].st = "resolved"
          /\ ops[j].type = "get" /\ ops[j].key = ops[i].key
          /\ ops[j].st = "resolved" )
        => ops[j].result = ops[i].value

C11_SetThenGet ==
    /\ C11_Got
    /\ \A i \in 1..Len(ops) :
          (Last(i) /\ ops[i].type = "set" /\ ops[i].st = "resolved")
          => Stored(ops[i].key) = ops[i].value

\* C12: a remove(k) having resolved, a get(k) made after it resolves to
\* undefined and a put(k, fn) made after it receives undefined as prev,
\* whatever k held; and a remove(k) of a key that holds nothing changes
\* nothing a get can see and is not rejected for the key's absence.
C12_AfterRemove ==
    \A i \in 1..Len(ops) : \A j \in 1..Len(ops) :
        ( /\ Next2(i, j)
          /\ ops[i].type = "remove" /\ ops[i].st = "resolved"
          /\ ops[j].key = ops[i].key /\ ops[j].st = "resolved" )
        => /\ ops[j].type = "get" => ops[j].result = Undef
           /\ ops[j].type = "put" => ops[j].prev = Undef

C12_Removed ==
    \A i \in 1..Len(ops) :
        (Last(i) /\ ops[i].type = "remove" /\ ops[i].st = "resolved")
        => Stored(ops[i].key) = Undef

C12_NoOpStep ==
    /\ \A t \in 1..Len(txs) :
          LET i == txs[t].op IN
          ( /\ ops[i].type = "remove" /\ txs[t].req = "delete"
            /\ txs'[t].wrote
            /\ Prop(objectStore, ops[i].key) = Undef )
          => objectStore' = objectStore /\ ops'[i] = Resolve(ops[i])
    /\ ( /\ backend = "ls" /\ IsCall /\ Called.type = "remove"
         /\ ~getJSON(localStorage).threw
         /\ Prop(getJSON(localStorage).data, Called.key) = Undef )
       => /\ getJSON(localStorage').data = getJSON(localStorage).data
          /\ Called.err \in {"none", "quota"}

C12_RemoveThenAbsent ==
    [](C12_AfterRemove /\ C12_Removed) /\ [][C12_NoOpStep]_vars

\* C13: a clear() having resolved, a get(k) made after it resolves to
\* undefined for every key k, and the instance is still in use: a call made
\* after it is taken on as any call is, a put made after it receives
\* undefined as prev, and a set made after it stores its value.
C13_AfterClear ==
    \A i \in 1..Len(ops) : \A j \in 1..Len(ops) :
        ( /\ Next2(i, j)
          /\ ops[i].type = "clear" /\ ops[i].st = "resolved"
          /\ ops[j].st = "resolved" )
        => /\ ops[j].type = "get" => ops[j].result = Undef
           /\ ops[j].type = "put" =>
                 /\ ops[j].prev = Undef
                 /\ Last(j) => Stored(ops[j].key) = ops[j].next
           /\ (ops[j].type = "set" /\ Last(j)) =>
                 Stored(ops[j].key) = ops[j].value

C13_Cleared ==
    \A i \in 1..Len(ops) :
        (Last(i) /\ ops[i].type = "clear" /\ ops[i].st = "resolved")
        => \A k \in Keys : Stored(k) = Undef

C13_UsableStep ==
    ( /\ IsCall /\ Len(ops) >= 1
      /\ ops[Len(ops)].type = "clear" /\ ops[Len(ops)].st = "resolved" )
    => Unharmed(Called)

C13_ClearThenAbsent ==
    [](C13_AfterClear /\ C13_Cleared) /\ [][C13_UsableStep]_vars

\* The keys of the persisted wrapper's data object.
KeySet(text) == {k \in Keys : text.data[k] # NoKey}

\* A remove(k) on the LocalStorageCacheStore that resolves in this step.
LsRemoved == backend = "ls" /\ IsCall /\ Called.type = "remove" /\ Called.st = "resolved"

\* C14 as stated: on the LocalStorageCacheStore, after remove(k) of a key
\* the persisted wrapper held, its key set still contains k.
C14_KeyKeptStep ==
    (LsRemoved /\ Called.key \in KeySet(localStorage))
    => Called.key \in KeySet(localStorage')

C14_KeyKept == [][C14_KeyKeptStep]_vars

\* C14 as amended: remove(k) assigns undefined to k in the object it parsed,
\* and the text it persists leaves k out: after remove(k) the persisted
\* wrapper is the one read with k taken out of its key set, the other keys
\* as they were.  On the IndexedCacheStore the record under k is deleted.
C14_KeyDroppedStep ==
    /\ LsRemoved =>
          /\ localStorage' =
                TextOf("json", [getJSON(localStorage).data EXCEPT ![Called.key] = NoKey])
          /\ Called.key \notin KeySet(localStorage')
    /\ \A t \in 1..Len(txs) :
          LET i == txs[t].op IN
          (ops[i].type = "remove" /\ txs[t].req = "delete" /\ txs'[t].wrote)
          => objectStore' = [objectStore EXCEPT ![ops[i].key] = NoKey]

C14_KeyDropped == [][C14_KeyDroppedStep]_vars

\* A remove(k) has resolved on a LocalStorageCacheStore that held a value
\* under every key: the persisted wrapper has lost k and kept the other key.
C14_Witness ==
    /\ backend = "ls"
    /\ initial = [k \in Keys |-> MaxVal]
    /\ Len(ops) = 1
    /\ ops[1].type = "remove" /\ ops[1].st = "resolved"
    /\ KeySet(localStorage) = Keys \ {ops[1].key}

\* The mapping after a call that resolved has taken effect on mapping d.
Apply(d, op) ==
    IF op.st # "resolved" THEN d
    ELSE CASE op.type = "set"    -> [d EXCEPT ![op.key] = op.value]
           [] op.type = "put"    -> [d EXCEPT ![op.key] = op.next]
           [] op.type = "remove" -> [d EXCEPT ![op.key] = NoKey]
           [] op.type = "clear"  -> EmptyObj
           [] OTHER              -> d

\* The mapping after the first n calls have taken effect one after the
\* other, in the order they were made, on what the store held at first.
RECURSIVE Replay(_)
Replay(n) == IF n = 0 THEN initial ELSE Apply(Replay(n - 1), ops[n])

\* C15: on the LocalStorageCacheStore every call runs to its end within the
\* call (none is left pending, none has a transaction), and the calls take
\* effect in the order they are made: each put and get reads the mapping
\* that all earlier calls have left, a put computes next from that prev, and
\* the stored mapping is the one the calls give when applied one by one.
\* So of two puts of k the second receives the first's next as prev.
C15_InOrder ==
    backend = "ls" =>
      /\ txs = <<>>
      /\ \A j \in 1..Len(ops) :
            /\ Settled(ops[j])
            /\ (ops[j].type = "put" /\ ops[j].st = "resolved") =>
                  /\ ops[j].prev = Prop(Replay(j - 1), ops[j].key)
                  /\ ops[j].next = CallUpdate(ops[j].update, ops[j].prev).next
            /\ (ops[j].type = "get" /\ ops[j].st = "resolved") =>
                  ops[j].result = Prop(Replay(j - 1), ops[j].key)
      /\ getJSON(localStorage).data = Replay(Len(ops))

\* Two puts of the same key were made one after the other on a
\* LocalStorageCacheStore that held a value under it: the second received
\* the first's next, and the store holds the second's next.
C15_Witness ==
    /\ backend = "ls"
    /\ Len(ops) = 2
    /\ ops[1].type = "put" /\ ops[2].type = "put" /\ ops[1].key = ops[2].key
    /\ ops[1].prev = MaxVal
    /\ ops[2].prev = ops[1].next
    /\ ops[2].next = MaxVal + 2
    /\ Stored(ops[2].key) = MaxVal + 2

\* The n-th call has been made and its promise has settled.
HasSettled(n) == Len(ops) >= n /\ Settled(ops[n])

\* C16: with an engine that delivers the callbacks it owes, every call made
\* on the instance, one made before the open ended included, settles: it
\* resolves or is rejected; and it settles once: a settled promise never
\* changes again.
C16_Settles ==
    /\ \A n \in 1..MaxOps : [](Len(ops) >= n => <>HasSettled(n))
    /\ [][NoRetryStep]_vars

\* Two calls made before the open ended have both settled, a put by
\* resolving and a set by being rejected when its request failed.
C16_Witness ==
    /\ Len(ops) = 2
    /\ ops[1].queued /\ ops[1].type = "put" /\ ops[1].st = "resolved"
    /\ ops[2].queued /\ ops[2].type = "set" /\ ops[2].err = "request"
    /\ Quiet

\* Transaction t belongs to a set, put, remove or clear whose promise has
\* resolved.
ResolvedWrite(t) ==
    /\ ops[txs[t].op].type \in {"set", "put", "remove", "clear"}
    /\ ops[txs[t].op].st = "resolved"

\* C17: on the IndexedCacheStore the transaction of a set, put, remove or
\* clear whose promise has resolved is not aborted, now or later: when it
\* ends it commits, and the committed records then show the call's effect.
C17_NotAborted ==
    \A t \in 1..Len(txs) : ResolvedWrite(t) => txs[t].st # "aborted"

C17_CommitStep ==
    \A t \in 1..Len(txs) :
        (ResolvedWrite(t) /\ txs'[t].st # txs[t].st) =>
            /\ txs'[t].st = "committed"
            /\ durable' = Apply(durable, ops[txs[t].op])

C17_ResolvedIsCommitted == [](C17_NotAborted) /\ [][C17_CommitStep]_vars

\* C18: a put(k, fn) whose fn calls set(j, 0) on the same instance being the
\* only call the caller made, once the put and the set have resolved and
\* nothing is in flight the store shows both writes: for j other than k, the
\* put's next under k and 0 under j; for j = k, one of the two values.
C18_ReentrantWritesKept ==
    ( /\ Len(ops) = 2
      /\ ops[1].type = "put" /\ ops[1].update \in Reentrant
      /\ ops[1].st = "resolved" /\ ops[2].st = "resolved"
      /\ Quiet )
    => LET k == ops[1].key
           j == NestedKey(ops[1].update) IN
       /\ ops[2] = Resolve(NestedSet(ops[1].update))
       /\ j # k => (Stored(k) = ops[1].next /\ Stored(j) = 0)
       /\ j = k => Stored(k) \in {ops[1].next, 0}

\* The transaction of call i has committed.
Committed(i) == \E t \in 1..Len(txs) : txs[t].op = i /\ txs[t].st = "committed"

\* The records after the first n calls have taken effect in the order they
\* were made, each one whose transaction committed, on what the store held.
RECURSIVE Effects(_)
Effects(n) ==
    IF n = 0 THEN initial
    ELSE IF Committed(n) THEN Apply(Effects(n - 1), ops[n])
    ELSE Effects(n - 1)

\* C19: on the IndexedCacheStore the transactions are created in the order
\* of the calls, whether the calls were made before the open ended, after
\* it, or some before and some after; and the calls take effect in that
\* order: a get, and the read of a put, sees the records as all calls made
\* before it have left them (so a get(k) made right after a set(k, v) that
\* was not awaited resolves to v once that set is committed), and when
\* nothing is in flight the committed records are those the calls give when
\* applied in call order.
C19_InCallOrder ==
    backend = "idb" =>
      /\ \A t1, t2 \in 1..Len(txs) : t1 < t2 => txs[t1].op < txs[t2].op
      /\ \A j \in 1..Len(ops) :
            /\ (ops[j].type = "get" /\ ops[j].st = "resolved") =>
                  ops[j].result = Prop(Effects(j - 1), ops[j].key)
            /\ (ops[j].type = "put" /\ ops[j].st = "resolved") =>
                  ops[j].prev = Prop(Effects(j - 1), ops[j].key)
      /\ Quiet => durable = Effects(Len(ops))

\* A set(k, v) and then a get(k) were called while the open was in flight,
\* neither awaited; the get has resolved to v, which k did not hold before.
C19_Witness ==
    /\ backend = "idb"
    /\ Len(ops) = 2
    /\ ops[1].type = "set" /\ ops[1].queued
    /\ ops[2].type = "get" /\ ops[2].queued /\ ops[2].key = ops[1].key
    /\ ops[2].st = "resolved"
    /\ ops[2].result = ops[1].value
    /\ Prop(initial, ops[1].key) # ops[1].value

\* What get(j) reads: in the records transactions see, in the committed
\* records, in the stored text.
Seen(j) == <<Prop(objectStore, j), Prop(durable, j), Prop(getJSON(localStorage).data, j)>>

\* Call i is a set, put or remove of a key other than j, or a get or ready.
Spares(i, j) ==
    \/ ops'[i].type \in {"get", "ready"}
    \/ ops'[i].type \in {"set", "put", "remove"} /\ ops'[i].key # j

\* C20: a step of a set(k, v), put(k, fn) or remove(k), be it the call, one
\* of its requests or the end of its transaction, and whether the call
\* succeeds or not, leaves what get(j) reads as it was for every key j other
\* than k; a step of a get or of a ready() leaves it as it was for every
\* key, and a get or ready() on the LocalStorageCacheStore leaves the text
\* itself untouched.
C20_FrameStep ==
    /\ \A j \in Keys :
          /\ (IsCall /\ Spares(Len(ops'), j)) => Seen(j)' = Seen(j)
          /\ \A t \in 1..Len(txs) :
                (txs'[t] # txs[t] /\ Spares(txs[t].op, j)) => Seen(j)' = Seen(j)
    /\ (IsCall /\ Called.type \in {"get", "ready"}) => localStorage' = localStorage

C20_Frame == [][C20_FrameStep]_vars

\* On a LocalStorageCacheStore that held MaxVal under every key, a set and
\* a remove of the same key have resolved: the key holds nothing and the
\* other key still holds MaxVal.
C20_Witness ==
    /\ backend = "ls"
    /\ Len(ops) = 2
    /\ ops[1].type = "set" /\ ops[1].value = 0 /\ ops[1].st = "resolved"
    /\ ops[2].type = "remove" /\ ops[2].key = ops[1].key /\ ops[2].st = "resolved"
    /\ Stored(ops[1].key) = Undef
    /\ \A j \in Keys \ {ops[1].key} : Stored(j) = MaxVal

====
